---- MODULE Spec2Model ----
(***************************************************************************)
(* The blow-detection state machine of the birthday experience: the App    *)
(* component with hysteresis and cooldown (src/services/geminiService.ts,  *)
(* lines 206-395).  One action per handler: handleInitialize, the          *)
(* completion of the greeting request, the two outcomes of initMic, and    *)
(* update (one animation frame).                                           *)
(*                                                                         *)
(* update reads the two timestamps lastStateTimeRef and lastTriggerAtRef   *)
(* only through the differences Date.now() - lastStateTimeRef.current and  *)
(* Date.now() - lastTriggerAtRef.current.  The state keeps these two       *)
(* differences, `elapsed` and `sinceTrigger`: the passing of time adds to  *)
(* both, and an assignment of `now` to a timestamp sets its difference to  *)
(* 0.  Both are counted up to MaxElapsed, which lies above every duration  *)
(* and above the cooldown, and stay there.                                 *)
(*                                                                         *)
(* update closes over the rendered `state` and `micActive`; the effect     *)
(* that owns the loop is re-created on every change of either, so a tick   *)
(* is modelled as running with the committed values and its setState calls *)
(* as committed before the next tick.                                      *)
(*                                                                         *)
(* Beside it, under specifications of their own over the same variables:   *)
(* the App of src/App.tsx, which triggers on a single hit frame            *)
(* (SpecSimple); the hit test applied to frames of two levels              *)
(* (SpecFrames); the edge function that forwards a prompt to the Gemini    *)
(* API, in its two variants (SpecProxy); the voice archive with its        *)
(* recordings, uploads and reloads (SpecVoice); the App whose start button *)
(* is pressed again while the first start is pending (SpecRestart); the    *)
(* two Apps run side by side on the same ticks and frames (SpecPair); and  *)
(* the camera overlay (SpecCamera).                                        *)
(***************************************************************************)
EXTENDS Integers, Sequences, FiniteSets, TLC

\* ---------------------------------------------------------------- bounds
\* The two clock differences are counted up to MaxElapsed.
MaxElapsed == 6000
\* Simulated milliseconds of the sustained-blow scenario.
MaxClock == 9300
\* The coarse step by which the environment advances the clock between
\* ticks; it advances by TickMs or by TickMs + 1.
TickMs == 1000
\* The frame interval of the sustained-blow scenario.
FrameMs == 16
\* Cap of the run-length counter in the guards of update.
MaxHits == 7
\* Recordings started, timer ticks per recording, and loadMessages calls of
\* the VoiceArchive scenario.
MaxRecordings == 2
MaxTicks == 1
MaxLoads == 1

\* ------------------------------------------------------ program constants
Infinity == 2147483647
COUNTDOWN_MS == 3000
MORPH_CAKE_MS == 4000
BLOW_OUT_MS == 2000
fftSize == 512
lowFreqBins == 15
blowThreshold == 55
cooldownMs == 900
requiredFrames == 6

ExperienceState ==
  {"IDLE", "LISTENING", "COUNTDOWN", "MORPH_CAKE", "CANDLES_LIT", "BLOW_OUT", "GIFT_OPEN"}

\* The states that have an own entry in DURATIONS.
DurationKeys == {"COUNTDOWN", "MORPH_CAKE", "CANDLES_LIT", "BLOW_OUT", "GIFT_OPEN"}

DURATIONS ==
  [s \in DurationKeys |->
     CASE s = "COUNTDOWN" -> COUNTDOWN_MS
       [] s = "MORPH_CAKE" -> MORPH_CAKE_MS
       [] s = "BLOW_OUT" -> BLOW_OUT_MS
       [] OTHER -> Infinity]

\* DurationOf with the entries of the first two timed stages exchanged.
DurationOf_Exchanged(s) ==
  IF s = "COUNTDOWN" THEN DURATIONS["MORPH_CAKE"]
  ELSE IF s = "MORPH_CAKE" THEN DURATIONS["COUNTDOWN"]
  ELSE IF s \in DurationKeys THEN DURATIONS[s] ELSE 0

\* const duration = DURATIONS[state] || 0
DurationOf(s) == IF s \in DurationKeys THEN DURATIONS[s] ELSE 0

\* The states left by a timer, and the states left by a blow.
TimedStates == {"COUNTDOWN", "MORPH_CAKE", "BLOW_OUT"}
GatedStates == {"LISTENING", "CANDLES_LIT"}

\* duration !== Infinity && elapsed > duration
TimedOut(elapsed, duration) == duration # Infinity /\ elapsed > duration

\* TimeoutNext with the countdown jumping straight to the lit candles.
TimeoutNext_SkipMorph(s) ==
  CASE s = "COUNTDOWN" -> "CANDLES_LIT"
    [] s = "MORPH_CAKE" -> "CANDLES_LIT"
    [] s = "BLOW_OUT" -> "GIFT_OPEN"
    [] OTHER -> s

\* The setState of the timeout branch (none outside the three timed states).
TimeoutNext(s) ==
  CASE s = "COUNTDOWN" -> "MORPH_CAKE"
    [] s = "MORPH_CAKE" -> "CANDLES_LIT"
    [] s = "BLOW_OUT" -> "GIFT_OPEN"
    [] OTHER -> s

\* A trigger that only starts the countdown and never blows the candles out.
TriggerNext_ListeningOnly(s) == IF s = "LISTENING" THEN "COUNTDOWN" ELSE s

\* The setState of a successful trigger (none outside the two gated states).
TriggerNext(s) ==
  CASE s = "LISTENING" -> "COUNTDOWN"
    [] s = "CANDLES_LIT" -> "BLOW_OUT"
    [] OTHER -> s

\* ----------------------------------------------------------- progress
\* progress is a JavaScript number; the model keeps it as a reduced
\* fraction <<n, d>>, with <<0, 0>> for NaN (0 / 0).
RECURSIVE GCD(_, _)
GCD(a, b) == IF b = 0 THEN a ELSE GCD(b, a % b)

Frac(n, d) == LET g == GCD(n, d) IN <<n \div g, d \div g>>
Zero == <<0, 1>>
One == <<1, 1>>
NaN == <<0, 0>>
IsNumber(p) == p[2] # 0
\* p <= q on numbers; every comparison with NaN is false.
Leq(p, q) == IsNumber(p) /\ IsNumber(q) /\ p[1] * q[2] <= q[1] * p[2]

\* ProgressOf counting the remaining share instead of the elapsed one.
ProgressOf_Remaining(elapsed, duration) ==
  IF duration = 0 THEN (IF elapsed = 0 THEN NaN ELSE One)
  ELSE IF elapsed >= duration THEN Zero
  ELSE Frac(duration - elapsed, duration)

\* Math.min(elapsed / duration, 1), evaluated for 0 <= elapsed.
ProgressOf(elapsed, duration) ==
  IF duration = 0 THEN (IF elapsed = 0 THEN NaN ELSE One)
  ELSE IF elapsed >= duration THEN One
  ELSE Frac(elapsed, duration)

\* ------------------------------------------------------------- frames
\* analyser.frequencyBinCount
frequencyBinCount == fftSize \div 2

\* The frames getByteFrequencyData delivers in the model: the first
\* lowFreqBins bins at one level, the other bins at another.
Frame(low, high) == [i \in 1..frequencyBinCount |-> IF i <= lowFreqBins THEN low ELSE high]
Frames == {Frame(0, 0), Frame(55, 55), Frame(60, 0), Frame(0, 60), Frame(200, 200)}

\* dataArray.slice(lo - 1, hi).reduce((a, b) => a + b, 0), summed by halves.
RECURSIVE SumRange(_, _, _)
SumRange(f, lo, hi) ==
  IF lo > hi THEN 0
  ELSE IF lo = hi THEN f[lo]
  ELSE LET mid == (lo + hi) \div 2
       IN  SumRange(f, lo, mid) + SumRange(f, mid + 1, hi)

\* isHit testing the mean of all bins only.
IsHit_TotalOnly(f) == SumRange(f, 1, Len(f)) > blowThreshold * Len(f)

\* isHit = lowFreqSum > blowThreshold || totalAverage > blowThreshold, the
\* two means compared without rounding.
IsHit(f) ==
  \/ SumRange(f, 1, lowFreqBins) > blowThreshold * lowFreqBins
  \/ SumRange(f, 1, Len(f)) > blowThreshold * Len(f)

\* isHit of every frame of the model, evaluated once.
IsHitOf == [f \in Frames |-> IsHit(f)]

HitFrames == {f \in Frames : IsHitOf[f]}
MissFrames == Frames \ HitFrames

\* --------------------------------------------------- hysteresis and gate
Max(a, b) == IF a >= b THEN a ELSE b
Min(a, b) == IF a <= b THEN a ELSE b

\* Hysteresis with a miss clearing the run.
Hysteresis_HardReset(h, hit) == IF hit THEN h + 1 ELSE 0

\* Hysteresis with a miss leaving the run as it is.
Hysteresis_NoDecay(h, hit) == IF hit THEN h + 1 ELSE h

Hysteresis(h, hit) == IF hit THEN h + 1 ELSE Max(0, h - 1)

\* canTrigger = (now - lastTriggerAtRef.current) > cooldownMs
CanTrigger(since) == since > cooldownMs

\* The gate without the run-length test.
ShouldTrigger_Always(h) == TRUE

\* ShouldTrigger one frame early.
ShouldTrigger_OneShort(h) == h >= requiredFrames - 1

ShouldTrigger(h) == h >= requiredFrames

\* ResetHits without the reset.
ResetHits_Keep(h) == h

\* The run-length the timeout branch leaves behind.
ResetHits(h) == 0

\* ------------------------------------------------------------ the proxy
\* The edge function that forwards a prompt to the Gemini API, in its two
\* variants: supabase/functions/openai-proxy/index.ts, and the one that
\* answers only the origins of an allowlist.  A request is its method, its
\* Origin header ("" when absent), and its body; the server configuration
\* is whether GEMINI_API_KEY is set.
Methods == {"OPTIONS", "POST", "GET"}

allowlist ==
  {"https://yuanhaooooo.github.io", "http://localhost:5173", "http://localhost:3000"}

Origins ==
  allowlist \cup {"", "https://yuanhaooooo.github.io/jiabao/", "https://example.org"}

\* The body: no JSON, the JSON null, or an object whose prompt is missing,
\* the empty string, a number, or a text.
Bodies == {"notJson", "null", "noPrompt", "emptyPrompt", "numberPrompt", "textPrompt"}

\* What the call of the Gemini API comes to: an OK response, a response
\* that is not OK, or a failed fetch.
Upstreams == {"ok", "notOk", "fails"}

\* buildCorsHeaders echoing whatever Origin the request carries.
buildCorsHeaders_Echo(origin) == origin

\* buildCorsHeaders(req)["Access-Control-Allow-Origin"]
buildCorsHeaders(origin) == IF origin \in allowlist THEN origin ELSE ""

\* await req.json() throws, or body.model throws on null.
BodyThrows(body) == body \in {"notJson", "null"}

\* The prompt test without its typeof part.
PromptMissing_Falsy(body) == body \in {"noPrompt", "emptyPrompt"}

\* prompt = body.prompt ?? ""; !prompt || typeof prompt !== "string"
PromptMissing(body) == body \in {"noPrompt", "emptyPrompt", "numberPrompt"}

Response(status, text, called) == [status |-> status, text |-> text, called |-> called]

\* The handler from its method test on.
Answer(method, hasKey, body, upstream) ==
  IF method # "POST" THEN Response(405, "Method not allowed", FALSE)
  ELSE IF ~hasKey THEN Response(500, "Missing GEMINI_API_KEY", FALSE)
  ELSE IF BodyThrows(body) THEN Response(500, "thrown", FALSE)
  ELSE IF PromptMissing(body) THEN Response(400, "Missing prompt", FALSE)
  ELSE CASE upstream = "ok" -> Response(200, "text", TRUE)
         [] upstream = "notOk" -> Response(429, "upstream error", TRUE)
         [] upstream = "fails" -> Response(500, "thrown", TRUE)

\* serve of index.ts
serve(method, hasKey, body, upstream) ==
  IF method = "OPTIONS" THEN Response(200, "ok", FALSE)
  ELSE Answer(method, hasKey, body, upstream)

\* serve of the allowlist variant
serveAllowlist(method, origin, hasKey, body, upstream) ==
  IF method = "OPTIONS" THEN Response(200, "ok", FALSE)
  ELSE IF buildCorsHeaders(origin) = "" THEN Response(403, "CORS blocked", FALSE)
  ELSE Answer(method, hasKey, body, upstream)

NoRequest == [variant |-> "none"]

\* ------------------------------------------------------- VoiceArchive
\* The component as mounted: nothing recorded, nothing listed, no request
\* in flight, the tables empty.  `ticked` fields are not the program's:
\* they follow the timer ticks of each recording.
VoiceInit ==
  [ module |-> "unloaded",  \* supabase: "unloaded", "client" or "null"
    recordingTime |-> 0, isRecording |-> FALSE,
    recorder |-> <<>>,      \* the MediaRecorder started last, while it records
    streams |-> 0,          \* microphone streams whose tracks are not stopped
    contexts |-> 0,         \* audio contexts not closed
    jobs |-> {},            \* onstop handlers awaiting the upload or the insert
    nextId |-> 1,           \* stands for genId()
    stored |-> {},          \* ids of the objects in the bucket
    rows |-> <<>>,          \* the table voice_messages, newest row first
    loads |-> {},           \* loadMessages calls awaiting the select
    loadsStarted |-> 0,
    messages |-> <<>> ]     \* useState<VoiceMessage[]>([])

\* The CameraFrame component as mounted, the overlay switched off.
CameraInit ==
  [ isActive |-> FALSE, video |-> FALSE, streamRef |-> 0,
    pending |-> 0, live |-> {}, nextStream |-> 1, toggles |-> 0 ]

\* The App of src/App.tsx run beside the App with the hysteresis: its
\* state, the time since lastStateTimeRef, its progress and its micActive
\* (initMic sets analyserRef.current on the path that sets micActive).
TwinInit == [ state |-> "IDLE", elapsed |-> 0, progress |-> Zero, micActive |-> FALSE ]

\* -------------------------------------------------------------- state
VARIABLES
  state,            \* useState<ExperienceState>('IDLE')
  progress,         \* useState(0)
  greeting,         \* useState<GreetingData | null>(null)
  micActive,        \* useState(false)
  analyser,         \* analyserRef.current is set
  elapsed,          \* Date.now() - lastStateTimeRef.current
  sinceTrigger,     \* Date.now() - lastTriggerAtRef.current
  blowHitFrames,    \* blowHitFramesRef.current
  cache,            \* localStorage[GREETING_CACHE_KEY]: "none", "valid" or "invalid"
  starts,           \* calls of handleInitialize so far
  greetingPending,  \* calls of generateLuxuryGreeting still awaited
  micPending,       \* calls of getUserMedia still awaited
  simTime,          \* ms of the sustained-blow scenario played so far
  stageHits,        \* hit frames sampled since the gated state was entered
  netRun,           \* net run-length of the frames sampled since then
  script,           \* how much of Pattern the frames of CANDLES_LIT have spelled
  lastHit,          \* isHit of the latest update (FALSE when it sampled no frame)
  lastRun,          \* blowHitFramesRef.current as the gate of the latest update read it
  tickNo,           \* parity of the number of updates run so far
  mounted,          \* the App component is mounted
  liveStreams,      \* microphone streams acquired and not stopped
  openContexts,     \* audio contexts created and not closed
  levels,           \* <<low, high>>: the frame of the hit-test study
  proxy,            \* the request the proxy served last, with its answer
  voice,            \* the VoiceArchive component and the tables it talks to
  camera,           \* the CameraFrame component
  twin              \* the App of src/App.tsx run beside the one of this state

fsmVars == <<state, progress, micActive, analyser, elapsed, sinceTrigger, blowHitFrames>>
startVars == <<greeting, cache, starts, greetingPending, micPending>>
stageVars == <<stageHits, netRun, script>>
tickVars == <<lastHit, lastRun, tickNo>>
micVars == <<liveStreams, openContexts>>

vars == <<fsmVars, startVars, stageVars, tickVars, simTime, mounted, micVars, levels, proxy, voice, camera, twin>>

Init ==
  /\ state = "IDLE"
  /\ progress = Zero
  /\ greeting = "null"
  /\ micActive = FALSE
  /\ analyser = FALSE
  /\ elapsed = 0                     \* lastStateTimeRef = useRef(Date.now())
  /\ sinceTrigger = MaxElapsed       \* lastTriggerAtRef = useRef(0)
  /\ blowHitFrames = 0
  /\ cache \in {"none", "valid", "invalid"}
  /\ starts = 0
  /\ greetingPending = 0
  /\ micPending = 0
  /\ simTime = 0
  /\ stageHits = 0
  /\ netRun = 0
  /\ script = 0
  /\ lastHit = FALSE
  /\ lastRun = 0
  /\ tickNo = 0
  /\ mounted = TRUE
  /\ liveStreams = 0
  /\ openContexts = 0
  /\ levels = <<0, 0>>
  /\ proxy = NoRequest
  /\ voice = VoiceInit
  /\ camera = CameraInit
  /\ twin = TwinInit

\* A state setter called from a promise: React drops the update of a
\* component that is no longer mounted.
SetState(current, value) == IF mounted THEN value ELSE current

\* ---------------------------------------------------- handleInitialize
\* The start button is rendered in IDLE only.  A valid cached greeting is
\* used at once; otherwise the entry is removed and the greeting requested.
handleInitialize ==
  /\ mounted
  /\ state = "IDLE"
  /\ starts = 0
  /\ starts' = starts + 1
  /\ IF cache = "valid"
       THEN /\ greeting' = "cached"
            /\ micPending' = micPending + 1
            /\ UNCHANGED <<cache, greetingPending>>
       ELSE /\ cache' = "none"
            /\ greetingPending' = greetingPending + 1
            /\ UNCHANGED <<greeting, micPending>>
  /\ UNCHANGED <<fsmVars, stageVars, tickVars, simTime, mounted, micVars, levels, proxy, voice, camera, twin>>

\* generateLuxuryGreeting settles: with a well-typed result, with an
\* ill-typed one, or by throwing.  Every branch goes on to initMic().
GreetingOutcomes == {"ok", "illTyped", "throws"}

GreetingOf(outcome) == IF outcome = "ok" THEN "result" ELSE "LOCAL_FALLBACK"

GreetingSettled(outcome) ==
  /\ greetingPending > 0
  /\ greetingPending' = greetingPending - 1
  /\ greeting' = SetState(greeting, GreetingOf(outcome))
  /\ cache' = IF outcome = "ok" THEN "valid" ELSE cache
  /\ micPending' = micPending + 1
  /\ UNCHANGED <<fsmVars, starts, stageVars, tickVars, simTime, mounted, micVars, levels, proxy, voice, camera, twin>>

\* ------------------------------------------------------------- initMic
\* The streams live once initMic holds the new one: the tracks of the
\* stream micStreamRef held before are stopped, the new stream is kept.
StreamsAfter(n) == (IF n > 0 THEN n - 1 ELSE 0) + 1

\* getUserMedia resolves: the analyser is wired, the microphone is active.
initMicResolved ==
  /\ micPending > 0
  /\ micPending' = micPending - 1
  /\ analyser' = TRUE
  /\ micActive' = SetState(micActive, TRUE)
  /\ state' = SetState(state, "LISTENING")
  /\ stageHits' = 0
  /\ netRun' = 0
  /\ script' = 0
  /\ liveStreams' = StreamsAfter(liveStreams)
  /\ openContexts' = openContexts + 1
  /\ UNCHANGED <<progress, elapsed, sinceTrigger, blowHitFrames,
                 greeting, cache, starts, greetingPending, tickVars, simTime, mounted, levels, proxy, voice, camera>>

MicGranted == initMicResolved /\ UNCHANGED twin

\* getUserMedia rejects: LISTENING without a microphone.
initMicRejected ==
  /\ micPending > 0
  /\ micPending' = micPending - 1
  /\ micActive' = SetState(micActive, FALSE)
  /\ state' = SetState(state, "LISTENING")
  /\ stageHits' = 0
  /\ netRun' = 0
  /\ script' = 0
  /\ UNCHANGED <<progress, analyser, elapsed, sinceTrigger, blowHitFrames,
                 greeting, cache, starts, greetingPending, tickVars, simTime,
                 mounted, micVars, levels, proxy, voice, camera>>

MicDenied == initMicRejected /\ UNCHANGED twin

\* -------------------------------------------------------------- update
\* What the frames of a gated stage add up to, kept beside the program's
\* own counter.  A tick that enters a gated state by timeout samples its
\* frame after the reset, so that frame is the first of the new stage; the
\* frame that fires a trigger is the last of its stage.
Pattern == <<TRUE, TRUE, TRUE, FALSE, TRUE, TRUE, TRUE, TRUE>>

\* The hit frames of the stage, counted up to requiredFrames.
CountHit(n, hit) == IF hit THEN Min(n + 1, requiredFrames) ELSE n

\* The net run-length of the stage: +1 on a hit, -1 floored at 0 on a miss,
\* followed until it reaches requiredFrames.
NetStep(n, hit) ==
  IF n >= requiredFrames THEN n
  ELSE IF hit THEN n + 1
  ELSE IF n > 0 THEN n - 1 ELSE 0

\* k when the frames of the stage are the first k frames of Pattern, else -1.
ScriptStep(k, hit) ==
  IF k >= 0 /\ k < Len(Pattern) /\ Pattern[k + 1] = hit THEN k + 1 ELSE -1

\* update reading a frame whatever the outcome of initMic was.
Sampled_Always(analyserSet, active) == TRUE

\* update reads a frame when analyserRef.current is set and micActive holds.
Sampled(analyserSet, active) == analyserSet /\ active

\* One run of update, d ms after the handler before it, with the frame the
\* analyser holds.
update(d, frame) ==
  LET e == Min(elapsed + d, MaxElapsed)
      since == Min(sinceTrigger + d, MaxElapsed)
      duration == DurationOf(state)
      timedOut == TimedOut(e, duration)
      s1 == IF timedOut THEN TimeoutNext(state) ELSE state
      e1 == IF timedOut THEN 0 ELSE e
      p1 == IF timedOut THEN Zero
            ELSE IF duration # Infinity THEN ProgressOf(e, duration)
            ELSE progress
      h1 == IF timedOut THEN ResetHits(blowHitFrames) ELSE blowHitFrames
      sampled == Sampled(analyser, micActive)
      isHit == IsHitOf[frame]
      h2 == IF sampled THEN Hysteresis(h1, isHit) ELSE h1
      fire == /\ sampled
              /\ CanTrigger(since)
              /\ ShouldTrigger(h2)
              /\ TriggerNext(state) # state
      staged == sampled /\ (state \in GatedStates \/ s1 \in GatedStates)
      continued == state \in GatedStates
  IN  /\ mounted
      /\ h2 <= MaxHits
      /\ state' = IF fire THEN TriggerNext(state) ELSE s1
      /\ elapsed' = IF fire THEN 0 ELSE e1
      /\ sinceTrigger' = IF fire THEN 0 ELSE since
      /\ blowHitFrames' = IF fire THEN 0 ELSE h2
      /\ progress' = p1
      /\ stageHits' = IF staged THEN CountHit(IF continued THEN stageHits ELSE 0, isHit) ELSE 0
      /\ netRun' = IF staged THEN NetStep(IF continued THEN netRun ELSE 0, isHit) ELSE 0
      /\ script' = IF staged /\ (state = "CANDLES_LIT" \/ s1 = "CANDLES_LIT")
                     THEN ScriptStep(IF continued THEN script ELSE 0, isHit)
                     ELSE 0
      /\ lastHit' = (sampled /\ isHit)
      /\ lastRun' = h2
      /\ tickNo' = 1 - tickNo
      /\ UNCHANGED <<micActive, analyser, startVars, mounted, micVars, levels, proxy, voice, camera>>

TickAt(d, frame) == update(d, frame) /\ UNCHANGED twin

Tick(frame) == TickAt(0, frame) /\ UNCHANGED simTime

\* Time passes between two handlers.
Elapse(d) ==
  /\ elapsed' = Min(elapsed + d, MaxElapsed)
  /\ sinceTrigger' = Min(sinceTrigger + d, MaxElapsed)
  /\ UNCHANGED <<state, progress, micActive, analyser, blowHitFrames,
                 startVars, stageVars, tickVars, simTime, mounted, micVars, levels, proxy, voice, camera>>

Advance(d) == Elapse(d) /\ UNCHANGED twin

\* The App component unmounts: the cleanup of the update effect cancels
\* the animation frame, and that is all the teardown there is.
Unmount ==
  /\ mounted
  /\ mounted' = FALSE
  /\ UNCHANGED <<fsmVars, startVars, stageVars, tickVars, simTime, micVars, levels, proxy, voice, camera, twin>>

Next ==
  \/ handleInitialize
  \/ \E o \in GreetingOutcomes : GreetingSettled(o)
  \/ MicGranted
  \/ MicDenied
  \/ \E f \in Frames : Tick(f)
  \/ \E d \in {TickMs, TickMs + 1} : Advance(d)
  \/ Unmount

Spec == Init /\ [][Next]_vars

\* The sustained-blow scenario: the microphone is granted, and from then on
\* every animation frame comes FrameMs after the one before and samples a
\* hit frame.
FrameTick(frame) ==
  /\ micActive
  /\ simTime + FrameMs <= MaxClock
  /\ simTime' = simTime + FrameMs
  /\ TickAt(FrameMs, frame)

NextBlow ==
  \/ handleInitialize
  \/ \E o \in GreetingOutcomes : GreetingSettled(o)
  \/ MicGranted
  \/ \E f \in HitFrames : FrameTick(f)

SpecBlow == Init /\ [][NextBlow]_vars

\* ------------------------------------------- src/App.tsx: the variant
\* The App of src/App.tsx: the same states, durations and hit test, but no
\* run-length and no cooldown (blowHitFrames and sinceTrigger are not
\* used), no greeting cache, no fallback greeting, and a microphone stream
\* that is kept in no ref.

\* What generateLuxuryGreeting hands to its caller.  The generator of
\* src/services/geminiService.ts catches its own errors and resolves with a
\* text of its own, or with whatever JSON.parse made of the reply.
ApiReplies == {"noKey", "error", "noText", "wellTyped", "illTyped", "nullJson", "notJson"}

GeneratedBySdk(reply) ==
  CASE reply = "noKey" -> "placeholder"
    [] reply = "error" -> "generatorFallback"
    [] reply = "noText" -> "generatorDefault"
    [] reply = "wellTyped" -> "result"
    [] reply = "illTyped" -> "illTyped"
    [] reply = "nullJson" -> "null"
    [] reply = "notJson" -> "generatorFallback"

\* The generator that calls the proxy: it rejects when fetch fails, when
\* the body is no JSON and when the response is not OK, and resolves with
\* String(data.text ?? "") otherwise.
ProxyReplies == {"networkError", "notJson", "notOk", "text", "noText"}

GeneratedByProxy(reply) ==
  CASE reply = "networkError" -> "throws"
    [] reply = "notJson" -> "throws"
    [] reply = "notOk" -> "throws"
    [] reply = "text" -> "result"
    [] reply = "noText" -> "emptyMessage"

Generated ==
  {GeneratedBySdk(r) : r \in ApiReplies} \cup {GeneratedByProxy(r) : r \in ProxyReplies}

\* handleInitialize: await generateLuxuryGreeting(subjectName).
SimpleHandleInitialize ==
  /\ mounted
  /\ state = "IDLE"
  /\ starts = 0
  /\ starts' = starts + 1
  /\ greetingPending' = greetingPending + 1
  /\ UNCHANGED <<fsmVars, greeting, cache, micPending, stageVars, tickVars,
                 simTime, mounted, micVars, levels, proxy, voice, camera, twin>>

\* The await settles: setGreeting(result); initMic().  A rejection ends the
\* handler there.
SimpleGreetingSettled(generated) ==
  /\ greetingPending > 0
  /\ greetingPending' = greetingPending - 1
  /\ IF generated = "throws"
       THEN UNCHANGED <<greeting, micPending>>
       ELSE /\ greeting' = SetState(greeting, generated)
            /\ micPending' = micPending + 1
  /\ UNCHANGED <<fsmVars, cache, starts, stageVars, tickVars, simTime, mounted, micVars, levels, proxy, voice, camera, twin>>

\* initMic, getUserMedia resolved: the stream is a local of initMic.
SimpleMicGranted ==
  /\ micPending > 0
  /\ micPending' = micPending - 1
  /\ analyser' = TRUE
  /\ micActive' = SetState(micActive, TRUE)
  /\ state' = SetState(state, "LISTENING")
  /\ liveStreams' = liveStreams + 1
  /\ openContexts' = openContexts + 1
  /\ UNCHANGED <<progress, elapsed, sinceTrigger, blowHitFrames,
                 greeting, cache, starts, greetingPending, stageVars, tickVars,
                 simTime, mounted, levels, proxy, voice, camera, twin>>

\* initMic, getUserMedia rejected: setState('LISTENING') and nothing else.
SimpleMicDenied ==
  /\ micPending > 0
  /\ micPending' = micPending - 1
  /\ state' = SetState(state, "LISTENING")
  /\ UNCHANGED <<progress, micActive, analyser, elapsed, sinceTrigger, blowHitFrames,
                 greeting, cache, starts, greetingPending, stageVars, tickVars,
                 simTime, mounted, micVars, levels, proxy, voice, camera, twin>>

\* The trigger of the variant reading the state the timeout has just set.
SimpleTriggerOn_Fresh(closed, set) == set

\* The state the trigger tests: the one update closed over, not the one
\* its own timeout branch has set.
SimpleTriggerOn(closed, set) == closed

\* One run of the variant's update, d ms after the handler before it.
SimpleTickAt(d, frame) ==
  LET e == Min(elapsed + d, MaxElapsed)
      duration == DurationOf(state)
      timedOut == TimedOut(e, duration)
      s1 == IF timedOut THEN TimeoutNext(state) ELSE state
      e1 == IF timedOut THEN 0 ELSE e
      p1 == IF timedOut THEN Zero
            ELSE IF duration # Infinity THEN ProgressOf(e, duration)
            ELSE progress
      sampled == Sampled(analyser, micActive)
      isHit == IsHitOf[frame]
      tested == SimpleTriggerOn(state, s1)
      fire == sampled /\ isHit /\ TriggerNext(tested) # tested
  IN  /\ mounted
      /\ state' = IF fire THEN TriggerNext(tested) ELSE s1
      /\ elapsed' = IF fire THEN 0 ELSE e1
      /\ progress' = p1
      /\ lastHit' = (sampled /\ isHit)
      /\ tickNo' = 1 - tickNo
      /\ UNCHANGED <<micActive, analyser, sinceTrigger, blowHitFrames, startVars,
                     stageVars, lastRun, simTime, mounted, micVars, levels, proxy, voice, camera, twin>>

SimpleTick(frame) == SimpleTickAt(0, frame)

\* Time passes between two handlers of the variant.
SimpleAdvance(d) ==
  /\ elapsed' = Min(elapsed + d, MaxElapsed)
  /\ UNCHANGED <<state, progress, micActive, analyser, sinceTrigger, blowHitFrames,
                 startVars, stageVars, tickVars, simTime, mounted, micVars, levels, proxy, voice, camera, twin>>

NextSimple ==
  \/ SimpleHandleInitialize
  \/ \E g \in Generated : SimpleGreetingSettled(g)
  \/ SimpleMicGranted
  \/ SimpleMicDenied
  \/ \E f \in Frames : SimpleTick(f)
  \/ \E d \in {TickMs, TickMs + 1} : SimpleAdvance(d)
  \/ Unmount

SpecSimple == Init /\ [][NextSimple]_vars

\* ------------------------------------------------- the hit test alone
\* The levels the frames of the study are made of.
Levels == {0, 54, 55, 56, 60, 200, 255}

\* isHit of every frame of the study, evaluated once.
IsHitAt == [l \in Levels \X Levels |-> IsHit(Frame(l[1], l[2]))]

\* getByteFrequencyData delivers Frame(low, high) and update computes
\* isHit of it.
SampleFrame(low, high) ==
  /\ levels' = <<low, high>>
  /\ lastHit' = IsHitAt[<<low, high>>]
  /\ tickNo' = 1 - tickNo
  /\ UNCHANGED <<fsmVars, startVars, stageVars, lastRun, simTime, mounted, micVars, proxy,
                 voice, camera, twin>>

NextFrames == \E low \in Levels, high \in Levels : SampleFrame(low, high)

SpecFrames == Init /\ [][NextFrames]_vars

\* ---------------------------------------------------- the proxy serves
Served(variant, method, origin, hasKey, body, response) ==
  [variant |-> variant, method |-> method, origin |-> origin, hasKey |-> hasKey,
   body |-> body, status |-> response.status, text |-> response.text,
   called |-> response.called]

ServePlain(method, origin, hasKey, body, upstream) ==
  /\ proxy' = Served("plain", method, origin, hasKey, body,
                     serve(method, hasKey, body, upstream))
  /\ UNCHANGED <<fsmVars, startVars, stageVars, tickVars, simTime, mounted, micVars, levels,
                 voice, camera, twin>>

ServeAllowlist(method, origin, hasKey, body, upstream) ==
  /\ proxy' = Served("allowlist", method, origin, hasKey, body,
                     serveAllowlist(method, origin, hasKey, body, upstream))
  /\ UNCHANGED <<fsmVars, startVars, stageVars, tickVars, simTime, mounted, micVars, levels,
                 voice, camera, twin>>

NextProxy ==
  \/ \E m \in Methods, o \in Origins, k \in BOOLEAN, b \in Bodies, u \in Upstreams :
       ServePlain(m, o, k, b, u)
  \/ \E m \in Methods, o \in Origins, k \in BOOLEAN, b \in Bodies, u \in Upstreams :
       ServeAllowlist(m, o, k, b, u)

SpecProxy == Init /\ [][NextProxy]_vars

\* ------------------------------------------------ VoiceArchive at work
othersOfVoice ==
  <<fsmVars, startVars, stageVars, tickVars, simTime, mounted, micVars, levels, proxy,
    camera, twin>>

\* The module is evaluated: createClient(...) when both keys are set, else
\* null.
VoiceLoadModule(client) ==
  /\ voice.module = "unloaded"
  /\ voice' = [voice EXCEPT !.module = client]
  /\ UNCHANGED othersOfVoice

\* The finally of onstop leaving the streams alone when the try threw.
Released_UnlessThrown(n, threw) == IF threw THEN n ELSE n - 1

\* finally { stream.getTracks().forEach(t => t.stop()); audioCtx.close() }
Released(n, threw) == n - 1

\* const duration = recordingTime, the recordingTime of the render whose
\* startRecording made this onstop.
DurationOf_Recording(captured, current) == captured

\* startRecording, getUserMedia granted (a refusal changes nothing here).
StartRecording ==
  /\ voice.module # "unloaded"
  /\ ~voice.isRecording
  /\ voice.recorder = <<>>
  /\ voice.nextId <= MaxRecordings
  /\ voice' = [voice EXCEPT !.recorder = <<[captured |-> voice.recordingTime, ticked |-> 0]>>,
                            !.streams = @ + 1,
                            !.contexts = @ + 1,
                            !.isRecording = TRUE]
  /\ UNCHANGED othersOfVoice

\* The interval of startRecording fires: setRecordingTime(p => p + 1).
TimerTick ==
  /\ voice.isRecording
  /\ voice.recorder # <<>>
  /\ voice.recorder[1].ticked < MaxTicks
  /\ voice' = [voice EXCEPT !.recordingTime = @ + 1,
                            !.recorder[1].ticked = @ + 1]
  /\ UNCHANGED othersOfVoice

\* stopRecording and the onstop it fires, up to the upload: without a
\* client onstop throws at once and its finally runs.
StopRecording ==
  /\ voice.recorder # <<>>
  /\ LET job == [id |-> voice.nextId,
                 duration |-> DurationOf_Recording(voice.recorder[1].captured,
                                                   voice.recordingTime),
                 ticked |-> voice.recorder[1].ticked,
                 phase |-> "uploading"]
     IN  voice' = [voice EXCEPT
                     !.isRecording = FALSE,
                     !.recorder = <<>>,
                     !.nextId = @ + 1,
                     !.jobs = IF voice.module = "null" THEN @ ELSE @ \cup {job},
                     !.streams = IF voice.module = "null" THEN Released(@, TRUE) ELSE @,
                     !.contexts = IF voice.module = "null" THEN Released(@, TRUE) ELSE @]
  /\ UNCHANGED othersOfVoice

\* The upload settles: on an error onstop throws and its finally runs.
UploadSettled(job, ok) ==
  /\ job \in voice.jobs
  /\ job.phase = "uploading"
  /\ voice' = IF ok
                THEN [voice EXCEPT !.stored = @ \cup {job.id},
                                   !.jobs = (@ \ {job}) \cup {[job EXCEPT !.phase = "inserting"]}]
                ELSE [voice EXCEPT !.jobs = @ \ {job},
                                   !.streams = Released(@, TRUE),
                                   !.contexts = Released(@, TRUE)]
  /\ UNCHANGED othersOfVoice

\* The table takes the insert or refuses it; a refusal makes onstop throw.
InsertServed(job, ok) ==
  /\ job \in voice.jobs
  /\ job.phase = "inserting"
  /\ voice' = IF ok
                THEN [voice EXCEPT
                        !.rows = <<[id |-> job.id, duration |-> job.duration,
                                    ticked |-> job.ticked]>> \o @,
                        !.jobs = (@ \ {job}) \cup {[job EXCEPT !.phase = "inserted"]}]
                ELSE [voice EXCEPT !.jobs = @ \ {job},
                                   !.streams = Released(@, TRUE),
                                   !.contexts = Released(@, TRUE)]
  /\ UNCHANGED othersOfVoice

\* onstop goes on after the insert: the playable url, then
\* setMessages(p => [newMessage, ...p]); setRecordingTime(0), then finally.
InsertReturned(job, urlOk) ==
  /\ job \in voice.jobs
  /\ job.phase = "inserted"
  /\ voice' = IF urlOk
                THEN [voice EXCEPT
                        !.messages = <<[id |-> job.id, duration |-> job.duration,
                                        ticked |-> job.ticked]>> \o @,
                        !.recordingTime = 0,
                        !.jobs = @ \ {job},
                        !.streams = Released(@, FALSE),
                        !.contexts = Released(@, FALSE)]
                ELSE [voice EXCEPT !.jobs = @ \ {job},
                                   !.streams = Released(@, TRUE),
                                   !.contexts = Released(@, TRUE)]
  /\ UNCHANGED othersOfVoice

\* loadMessages is called, by the effect or by its 15 s interval.
StartLoad ==
  /\ voice.module # "unloaded"
  /\ voice.loadsStarted < MaxLoads
  /\ voice' = IF voice.module = "null"
                THEN [voice EXCEPT !.loadsStarted = @ + 1, !.messages = <<>>]
                ELSE [voice EXCEPT !.loadsStarted = @ + 1,
                                   !.loads = @ \cup {[n |-> voice.loadsStarted + 1,
                                                      phase |-> "selecting", data |-> <<>>]}]
  /\ UNCHANGED othersOfVoice

\* The table answers the select with its rows of that moment, or fails.
LoadServed(load, ok) ==
  /\ load \in voice.loads
  /\ load.phase = "selecting"
  /\ voice' = IF ok
                THEN [voice EXCEPT !.loads = (@ \ {load}) \cup
                                     {[load EXCEPT !.phase = "fetched", !.data = voice.rows]}]
                ELSE [voice EXCEPT !.loads = @ \ {load}]
  /\ UNCHANGED othersOfVoice

\* loadMessages goes on after the select: setMessages(withUrls).
LoadReturned(load) ==
  /\ load \in voice.loads
  /\ load.phase = "fetched"
  /\ voice' = [voice EXCEPT !.messages = load.data, !.loads = @ \ {load}]
  /\ UNCHANGED othersOfVoice

NextVoice ==
  \/ \E c \in {"client", "null"} : VoiceLoadModule(c)
  \/ StartRecording
  \/ TimerTick
  \/ StopRecording
  \/ \E j \in voice.jobs, ok \in BOOLEAN : UploadSettled(j, ok)
  \/ \E j \in voice.jobs, ok \in BOOLEAN : InsertServed(j, ok)
  \/ \E j \in voice.jobs, ok \in BOOLEAN : InsertReturned(j, ok)
  \/ StartLoad
  \/ \E l \in voice.loads, ok \in BOOLEAN : LoadServed(l, ok)
  \/ \E l \in voice.loads : LoadReturned(l)

SpecVoice == Init /\ [][NextVoice]_vars

\* ------------------------------------------------ repeated activation
\* The start button stays rendered while the state is IDLE, that is until
\* an initMic has ended: nothing disables it while the greeting or the
\* microphone is awaited, so handleInitialize can run again.
MaxStarts == 2

handleInitializeAgain ==
  /\ mounted
  /\ state = "IDLE"
  /\ starts >= 1
  /\ starts < MaxStarts
  /\ starts' = starts + 1
  /\ IF cache = "valid"
       THEN /\ greeting' = "cached"
            /\ micPending' = micPending + 1
            /\ UNCHANGED <<cache, greetingPending>>
       ELSE /\ cache' = "none"
            /\ greetingPending' = greetingPending + 1
            /\ UNCHANGED <<greeting, micPending>>
  /\ UNCHANGED <<fsmVars, stageVars, tickVars, simTime, mounted, micVars, levels, proxy, voice, camera, twin>>

NextRestart ==
  \/ handleInitialize
  \/ handleInitializeAgain
  \/ \E o \in GreetingOutcomes : GreetingSettled(o)
  \/ MicGranted
  \/ MicDenied
  \/ \E f \in Frames : Tick(f)
  \/ \E d \in {TickMs, TickMs + 1} : Advance(d)

SpecRestart == Init /\ [][NextRestart]_vars

\* -------------------------------------------------- the two variants
\* The App with hysteresis and cooldown (the variables of the module) and
\* the App of src/App.tsx (twin) run side by side: started together, their
\* microphone acquisitions settle together with the same outcome, and
\* every tick of one is a tick of the other at the same time with the same
\* frame.

\* update of src/App.tsx, d ms after the handler before it.
SimpleUpdate(t, d, frame) ==
  LET e == Min(t.elapsed + d, MaxElapsed)
      duration == DurationOf(t.state)
      timedOut == TimedOut(e, duration)
      s1 == IF timedOut THEN TimeoutNext(t.state) ELSE t.state
      e1 == IF timedOut THEN 0 ELSE e
      p1 == IF timedOut THEN Zero
            ELSE IF duration # Infinity THEN ProgressOf(e, duration)
            ELSE t.progress
      sampled == Sampled(t.micActive, t.micActive)
      isHit == IsHitOf[frame]
      tested == SimpleTriggerOn(t.state, s1)
      fire == sampled /\ isHit /\ TriggerNext(tested) # tested
  IN  [t EXCEPT !.state = IF fire THEN TriggerNext(tested) ELSE s1,
                !.elapsed = IF fire THEN 0 ELSE e1,
                !.progress = p1]

PairMicGranted ==
  /\ initMicResolved
  /\ twin' = [twin EXCEPT !.state = SetState(@, "LISTENING"),
                          !.micActive = SetState(@, TRUE)]

PairMicDenied ==
  /\ initMicRejected
  /\ twin' = [twin EXCEPT !.state = SetState(@, "LISTENING")]

PairTick(frame) ==
  /\ update(0, frame)
  /\ twin' = SimpleUpdate(twin, 0, frame)
  /\ UNCHANGED simTime

PairAdvance(d) ==
  /\ Elapse(d)
  /\ twin' = [twin EXCEPT !.elapsed = Min(@ + d, MaxElapsed)]

NextPair ==
  \/ handleInitialize
  \/ \E o \in GreetingOutcomes : GreetingSettled(o)
  \/ PairMicGranted
  \/ PairMicDenied
  \/ \E f \in Frames : PairTick(f)
  \/ PairAdvance(TickMs)

SpecPair == Init /\ [][NextPair]_vars

\* --------------------------------------------------------- CameraFrame
\* The camera overlay: isActive is the prop, video tells whether the video
\* element is rendered (videoRef.current), streamRef the stream the ref
\* holds (0 for none), pending the getUserMedia calls not yet settled, live
\* the streams whose tracks have not been stopped.
MaxToggles == 6

othersOfCamera ==
  <<fsmVars, startVars, stageVars, tickVars, simTime, mounted, micVars, levels, proxy, voice, twin>>

\* The tracks of the stream the ref holds are stopped.
StopRef(live, ref) == live \ {ref}

\* The camera button: setIsCameraActive(!isCameraActive).  The overlay
\* renders with or without its video element, the cleanup of the effect
\* stops the stream of streamRef, and the effect runs again: it asks for
\* the camera when active, and stops the stream of streamRef otherwise.
ToggleCamera ==
  /\ camera.toggles < MaxToggles
  /\ camera' = IF camera.isActive
                 THEN [camera EXCEPT !.toggles = @ + 1,
                                     !.isActive = FALSE,
                                     !.video = FALSE,
                                     !.live = StopRef(StopRef(@, camera.streamRef),
                                                      camera.streamRef)]
                 ELSE [camera EXCEPT !.toggles = @ + 1,
                                     !.isActive = TRUE,
                                     !.video = TRUE,
                                     !.live = StopRef(@, camera.streamRef),
                                     !.pending = @ + 1]
  /\ UNCHANGED othersOfCamera

\* getUserMedia resolves with a new stream: it is shown and kept in
\* streamRef when the video element exists, and left alone otherwise.
CameraGranted ==
  /\ camera.pending > 0
  /\ camera' = [camera EXCEPT !.pending = @ - 1,
                              !.nextStream = @ + 1,
                              !.live = @ \cup {camera.nextStream},
                              !.streamRef = IF camera.video THEN camera.nextStream ELSE @]
  /\ UNCHANGED othersOfCamera

\* getUserMedia rejects: the error is logged.
CameraDenied ==
  /\ camera.pending > 0
  /\ camera' = [camera EXCEPT !.pending = @ - 1]
  /\ UNCHANGED othersOfCamera

NextCamera ==
  \/ ToggleCamera
  \/ CameraGranted
  \/ CameraDenied

SpecCamera == Init /\ [][NextCamera]_vars

\* ============================================================== claims
\* A step that fires the blow trigger: it moves the state and stamps
\* lastTriggerAtRef with now.
Triggered == state' # state /\ sinceTrigger' = 0

\* A step that is a run of update.
Ticked == tickNo' # tickNo

\* C1: in the sustained-blow scenario (microphone active, every tick later
\* than the one before, every frame a hit) the machine has left LISTENING
\* by the sixth hit frame, and for cooldownMs after a trigger it sits in the
\* state that trigger entered.
C1_SixHitsLeaveListening ==
  /\ (state = "LISTENING" /\ micActive) => stageHits < requiredFrames
  /\ sinceTrigger <= cooldownMs => state \in {"COUNTDOWN", "BLOW_OUT"}

\* C2: every change of the state is one of the six edges of the diagram.
Edges ==
  { <<"IDLE", "LISTENING">>, <<"LISTENING", "COUNTDOWN">>, <<"COUNTDOWN", "MORPH_CAKE">>,
    <<"MORPH_CAKE", "CANDLES_LIT">>, <<"CANDLES_LIT", "BLOW_OUT">>, <<"BLOW_OUT", "GIFT_OPEN">> }

C2_SixEdges == [][state' # state => <<state, state'>> \in Edges]_vars

C2_Witness == state = "GIFT_OPEN"

\* C3: in the sustained-blow scenario the machine is in GIFT_OPEN once the
\* time the whole sequence needs has passed: requiredFrames frames for each
\* of the two blows, and each timed stage with the frame that ends it.
EndToEndMs ==
  2 * requiredFrames * FrameMs
    + (COUNTDOWN_MS + FrameMs) + (MORPH_CAKE_MS + FrameMs) + (BLOW_OUT_MS + FrameMs)

C3_ReachesGiftOpen == simTime >= EndToEndMs => state = "GIFT_OPEN"

\* C4: a step that changes the state leaves progress at 0, the run-length
\* at 0 and the elapsed time of the state at 0.
C4_TransitionResets ==
  [][state' # state => progress' = Zero /\ blowHitFrames' = 0 /\ elapsed' = 0]_vars

C4_Witness == state = "MORPH_CAKE" /\ elapsed = 0 /\ blowHitFrames = 1

\* C5: the blow that puts the candles out rests on at least requiredFrames
\* hit frames sampled since the tick that lit them.
C5_NoResidual ==
  [][(state = "CANDLES_LIT" /\ state' = "BLOW_OUT") => stageHits' >= requiredFrames]_vars

C5_Witness == state = "BLOW_OUT" /\ elapsed = 0 /\ stageHits = requiredFrames

\* C6: the trigger fires only in a gated state, with the microphone
\* active, the run-length the gate reads at requiredFrames or more and
\* cooldownMs or more since the trigger before; in the other states a step
\* leaves the trigger time alone and moves the state or restarts its time
\* only by the timer (or, in IDLE, by the start).
C6_TriggerGate ==
  [][ /\ Triggered =>
           /\ state \in GatedStates
           /\ analyser /\ micActive
           /\ lastRun' >= requiredFrames
           /\ sinceTrigger >= cooldownMs
      /\ state \notin GatedStates =>
           /\ ~Triggered
           /\ sinceTrigger' >= sinceTrigger
           /\ state' # state => (state = "IDLE" \/ TimedOut(elapsed, DurationOf(state)))
           /\ elapsed' < elapsed => TimedOut(elapsed, DurationOf(state)) ]_vars

C6_Witness ==
  state = "COUNTDOWN" /\ elapsed = 0 /\ sinceTrigger = 0 /\ lastHit /\ lastRun >= requiredFrames

\* C7: with the candles lit and the microphone active a hit adds 1 to the
\* run-length and a miss takes 1 off, not below 0; along Pattern the
\* run-lengths are RunLengths, and the trigger fires on its last frame and
\* on none before.
RunLengths == <<1, 2, 3, 2, 3, 4, 5, 6>>

C7_HysteresisSteps ==
  [][ /\ (state = "CANDLES_LIT" /\ analyser /\ micActive /\ Ticked) =>
           lastRun' = IF lastHit' THEN blowHitFrames + 1
                      ELSE IF blowHitFrames > 0 THEN blowHitFrames - 1 ELSE 0
      /\ script' \in 1..(Len(Pattern) - 1) =>
           state' = "CANDLES_LIT" /\ blowHitFrames' = RunLengths[script']
      /\ script' = Len(Pattern) =>
           state' = "BLOW_OUT" /\ lastRun' = RunLengths[Len(Pattern)] ]_vars

C7_Witness == script = Len(Pattern) /\ state = "BLOW_OUT" /\ elapsed = 0

\* C8: the trigger fires only when the net run-length of the frames of the
\* stage has reached requiredFrames.
C8_NoTriggerBelowSix == [][Triggered => netRun' >= requiredFrames]_vars

C8_Witness ==
  /\ state \in GatedStates /\ micActive
  /\ stageHits = requiredFrames /\ netRun < requiredFrames

\* C9: a timed state is left only for its successor and only on a tick
\* whose elapsed time is above its duration, and every such tick leaves it;
\* CANDLES_LIT is left only by the blow trigger and GIFT_OPEN never.
StageMs(s) ==
  CASE s = "COUNTDOWN" -> COUNTDOWN_MS
    [] s = "MORPH_CAKE" -> MORPH_CAKE_MS
    [] s = "BLOW_OUT" -> BLOW_OUT_MS

Successor(s) ==
  CASE s = "COUNTDOWN" -> "MORPH_CAKE"
    [] s = "MORPH_CAKE" -> "CANDLES_LIT"
    [] s = "BLOW_OUT" -> "GIFT_OPEN"

C9_TimeoutOnly ==
  [][ /\ state \in TimedStates =>
           /\ state' # state => (state' = Successor(state) /\ elapsed > StageMs(state))
           /\ (Ticked /\ elapsed > StageMs(state)) => state' # state
      /\ (state = "CANDLES_LIT" /\ state' # state) =>
           (Triggered /\ state' = "BLOW_OUT" /\ lastRun' >= requiredFrames)
      /\ state = "GIFT_OPEN" => state' = state ]_vars

C9_Witness == state = "COUNTDOWN" /\ elapsed = COUNTDOWN_MS /\ progress = One

\* C10: a tick that stays in a timed state sets progress to
\* min(elapsed / duration, 1), which is not below the value before it.
Share(e, d) == IF e >= d THEN One ELSE Frac(e, d)

C10_ProgressMonotone ==
  [][(state \in TimedStates /\ state' = state /\ Ticked) =>
       /\ progress' = Share(elapsed, StageMs(state))
       /\ IsNumber(progress) => Leq(progress, progress')]_vars

C10_Witness == state \in TimedStates /\ IsNumber(progress) /\ progress \notin {Zero, One}

\* C11: a step that leaves a timed state by its timeout finds progress at
\* exactly 1, the value the last tick in that state set.
C11_OneBeforeTimeout ==
  [][(state \in TimedStates /\ state' # state) => progress = One]_vars

C11_Witness ==
  state = "MORPH_CAKE" /\ elapsed = 0 /\ IsNumber(progress) /\ progress = Zero

\* C12: in every reachable state progress is a number, not below 0 and not
\* above 1.
C12_ProgressInUnitInterval ==
  IsNumber(progress) /\ Leq(Zero, progress) /\ Leq(progress, One)

C12_Witness == state = "LISTENING" /\ elapsed = 0 /\ lastRun = 1 /\ ~IsNumber(progress)

\* C13: when getUserMedia is refused the machine enters LISTENING with the
\* microphone inactive, and from then on it stays in LISTENING: no step
\* fires the blow trigger, whatever frame the tick is offered.
C13_DeniedNeverTriggers ==
  [][ /\ (mounted /\ micPending' < micPending /\ ~micActive') => state' = "LISTENING"
      /\ (state = "LISTENING" /\ ~micActive) =>
           /\ state' = "LISTENING" /\ ~micActive'
           /\ ~Triggered
           /\ sinceTrigger' >= sinceTrigger ]_vars

C13_Witness ==
  /\ state = "LISTENING" /\ ~micActive /\ ~analyser
  /\ starts = 1 /\ micPending = 0
  /\ greeting = "LOCAL_FALLBACK" /\ elapsed = TickMs

\* C14: in the variant of src/App.tsx a run of update moves the state
\* along one edge at most: a tick that takes a timeout transition enters
\* the successor with progress 0 and stays there even when its frame is a
\* hit, and a gated state is left only for its own trigger target.
C14_OneTransitionPerTick ==
  [][ Ticked =>
        /\ state' # state => <<state, state'>> \in Edges
        /\ (state \in TimedStates /\ TimedOut(elapsed, StageMs(state))) =>
             (state' = Successor(state) /\ progress' = Zero /\ elapsed' = 0)
        /\ (state \in GatedStates /\ state' # state) =>
             (lastHit' /\ state' = TriggerNext(state)) ]_vars

C14_Witness ==
  state = "CANDLES_LIT" /\ elapsed = 0 /\ lastHit /\ micActive /\ progress = Zero

\* C15: a frame is a hit exactly when the mean of its first 15 bins is
\* above 55 or the mean of all its 256 bins is above 55; a frame with no
\* bin above 55 is no hit, and a frame whose first 15 bins are above 55 is
\* a hit whatever the other bins hold.
C15_HitIffMeanAbove ==
  /\ lastHit <=> \/ 15 * levels[1] > 55 * 15
                 \/ 15 * levels[1] + 241 * levels[2] > 55 * 256
  /\ (levels[1] <= 55 /\ levels[2] <= 55) => ~lastHit
  /\ levels[1] > 55 => lastHit

C15_Witness == levels = <<60, 0>> /\ lastHit /\ tickNo = 1

\* C16: when the generation of the greeting settles with anything but a
\* generated greeting, handleInitialize of src/App.tsx sets a non-empty
\* greeting held in the code and goes on to initMic.
LocalGreetings == {"LOCAL_FALLBACK", "placeholder", "generatorFallback", "generatorDefault"}

C16_FallbackOnFailure ==
  [][(mounted /\ greetingPending' < greetingPending /\ greeting' # "result") =>
       (greeting' \in LocalGreetings /\ micPending' = micPending + 1)]_vars

C16_Witness ==
  /\ state = "IDLE" /\ starts = 1 /\ greetingPending = 0 /\ micPending = 0
  /\ greeting = "null" /\ mounted /\ elapsed = TickMs

\* C17: once the App component is unmounted no microphone stream is live
\* and no audio context is open.
C17_ReleasedOnTeardown == ~mounted => (liveStreams = 0 /\ openContexts = 0)

C17_Witness ==
  /\ ~mounted /\ micActive /\ analyser /\ state = "CANDLES_LIT"
  /\ liveStreams = 1 /\ openContexts = 1

\* C18: in the variant of src/App.tsx a run of update that samples a hit
\* frame with the microphone active leaves LISTENING for COUNTDOWN and
\* CANDLES_LIT for BLOW_OUT in that same run, whatever was sampled before
\* and however short a time ago the state was entered.
C18_SingleHitFires ==
  [][(Ticked /\ lastHit') =>
       /\ state = "LISTENING" => (state' = "COUNTDOWN" /\ elapsed' = 0)
       /\ state = "CANDLES_LIT" => (state' = "BLOW_OUT" /\ elapsed' = 0)]_vars

C18_Witness ==
  state = "BLOW_OUT" /\ elapsed = 0 /\ lastHit /\ blowHitFrames = 0 /\ mounted

\* C19: the allowlist variant answers every request that is not OPTIONS
\* and whose Origin is absent or none of the three origins of the allowlist
\* with 403, without calling the Gemini API.
C19_ForeignOriginBlocked ==
  (/\ proxy.variant = "allowlist"
   /\ proxy.method # "OPTIONS"
   /\ proxy.origin \notin {"https://yuanhaooooo.github.io", "http://localhost:5173",
                           "http://localhost:3000"})
    => (proxy.status = 403 /\ ~proxy.called)

C19_Witness ==
  /\ proxy.variant = "allowlist" /\ proxy.method = "POST"
  /\ proxy.origin = "https://yuanhaooooo.github.io/jiabao/"
  /\ proxy.hasKey /\ proxy.body = "textPrompt"
  /\ proxy.status = 403 /\ ~proxy.called

\* What the precedence OPTIONS, method, key, prompt, exception makes of the
\* request served last.
AnsweredInOrder ==
  IF proxy.method = "OPTIONS" THEN proxy.status = 200 /\ proxy.text = "ok" /\ ~proxy.called
  ELSE IF proxy.method # "POST" THEN proxy.status = 405 /\ ~proxy.called
  ELSE IF ~proxy.hasKey THEN proxy.status = 500 /\ ~proxy.called
  ELSE IF proxy.body \in {"noPrompt", "emptyPrompt", "numberPrompt"}
    THEN proxy.status = 400 /\ ~proxy.called
  ELSE IF proxy.body \in {"notJson", "null"} THEN proxy.status = 500 /\ ~proxy.called
  ELSE proxy.called

\* The request served last came from none of the origins of the allowlist
\* to the variant that has one, and is not OPTIONS.
Foreign ==
  /\ proxy.variant = "allowlist"
  /\ proxy.method # "OPTIONS"
  /\ proxy.origin \notin {"https://yuanhaooooo.github.io", "http://localhost:5173",
                          "http://localhost:3000"}

\* C20 (as stated): either variant of the proxy answers OPTIONS with 200
\* "ok", any other method but POST with 405, a missing key with 500, a
\* missing, empty or non-string prompt with 400, a body that makes the
\* handler throw with 500, in this precedence and without calling the Gemini
\* API, and calls it in every other case.
C20_AnsweredInOrder == proxy.variant # "none" => AnsweredInOrder

\* C20 (amended): the same, except that the allowlist variant answers a
\* request that is not OPTIONS and comes from no origin of the allowlist
\* with 403, without calling the Gemini API, before it tests the method.
C20_AnsweredInOrderOrBlocked ==
  proxy.variant # "none" =>
    IF Foreign THEN proxy.status = 403 /\ ~proxy.called ELSE AnsweredInOrder

C20_Witness ==
  /\ proxy.variant = "allowlist" /\ proxy.origin = "http://localhost:5173"
  /\ proxy.called /\ proxy.status = 200

\* The ids the list shows.
ListedIds == {voice.messages[i].id : i \in 1..Len(voice.messages)}
RowIds == {voice.rows[i].id : i \in 1..Len(voice.rows)}

\* C21: every microphone stream and audio context of VoiceArchive belongs
\* to the recording that runs or to an onstop that still awaits its upload
\* or insert, so each is released when its onstop ends, however it ends; a
\* message is listed only when its object is in the bucket and its row in
\* the table, and a row is inserted only for an object in the bucket.
C21_ReleasedAfterStop ==
  /\ voice.streams = Len(voice.recorder) + Cardinality(voice.jobs)
  /\ voice.contexts = voice.streams
  /\ ListedIds \subseteq (RowIds \cap voice.stored)
  /\ RowIds \subseteq voice.stored
  /\ \A j \in voice.jobs : j.phase # "uploading" => j.id \in voice.stored

C21_Witness ==
  /\ voice.module = "client" /\ voice.nextId = 3
  /\ voice.streams = 0 /\ voice.contexts = 0
  /\ voice.stored = {1, 2} /\ RowIds = {2} /\ ListedIds = {2}

\* The position of a state in the sequence of the experience.
Rank(s) ==
  CASE s = "IDLE" -> 0
    [] s = "LISTENING" -> 1
    [] s = "COUNTDOWN" -> 2
    [] s = "MORPH_CAKE" -> 3
    [] s = "CANDLES_LIT" -> 4
    [] s = "BLOW_OUT" -> 5
    [] s = "GIFT_OPEN" -> 6

\* C22: with the start button activated more than once, the state never
\* moves backwards: from COUNTDOWN or any later state no step leads to
\* LISTENING or IDLE, whichever microphone acquisition completes.
C22_NeverBackwards ==
  [][Rank(state) >= 2 => Rank(state') >= 2]_vars

\* The second activation's microphone is still awaited after COUNTDOWN
\* has been reached.
C22_Witness ==
  /\ starts = 2
  /\ micPending = 1
  /\ Rank(state) >= 2

C24_GreetingBeforeListening ==
  state # "IDLE" => greeting # "null"

\* The App listens after a start whose greeting request has settled.
C24_Witness ==
  /\ starts = 1
  /\ greetingPending = 0
  /\ micPending = 0
  /\ state = "LISTENING"
  /\ greeting = "null"

\* C25: the duration stored in the table and listed for a voice message is
\* the number of timer ticks of its recording, the value the recording
\* timer had reached when the recording was stopped.
C25_DurationIsTimerValue ==
  /\ \A i \in 1..Len(voice.rows) : voice.rows[i].duration = voice.rows[i].ticked
  /\ \A i \in 1..Len(voice.messages) :
       voice.messages[i].duration = voice.messages[i].ticked

\* A recording during which the timer ticked has been stored and listed.
C25_Witness ==
  \E i \in 1..Len(voice.messages) :
    /\ voice.messages[i].ticked > 0
    /\ voice.messages[i].id \in RowIds

\* C26: however the reloads interleave with the completion of an upload,
\* the message list holds no id twice, and no step removes from the list a
\* message whose upload and insert succeeded.
C26_NoDuplicateNoLoss ==
  [][ /\ Cardinality(ListedIds) = Len(voice.messages)
      /\ Cardinality(ListedIds') = Len(voice.messages')
      /\ \A id \in ListedIds \cap RowIds : id \in ListedIds' ]_vars

\* A message is listed while a reload that read the table before the
\* insert has not yet set the list.
C26_Witness ==
  \E l \in voice.loads :
    /\ l.phase = "fetched"
    /\ \E id \in ListedIds \cap RowIds :
         \A i \in 1..Len(l.data) : l.data[i].id # id

\* C27: whenever the camera overlay is inactive and no acquisition is
\* pending, no camera stream is live.
C27_NoStreamWhenOff ==
  (~camera.isActive /\ camera.pending = 0) => camera.live = {}

\* The overlay was switched on and off again and the one acquisition has
\* completed.
C27_Witness ==
  /\ ~camera.isActive
  /\ camera.pending = 0
  /\ camera.toggles = 2
  /\ camera.nextStream = 2

====
